---- MODULE Spec2Model ----
(***************************************************************************)
(* The priority task queue of app/task_queue.py (class TaskQueue) as a     *)
(* state machine.  The queue lives on one asyncio event loop: a coroutine  *)
(* runs without interruption between two points where it suspends, so     *)
(* each action below is the code between two suspension points.            *)
(*                                                                         *)
(* Left out, as written and never read by the queue: the record keys       *)
(* priority, func_name, started_at and completed_at, and the result value  *)
(* of a job (a completed record holds None or a value, here one token).    *)
(* Job bodies are abstract: a body returns, raises or suspends.            *)
(* No caller passes _timeout (app/bot.py): in Spec, SpecPurge and          *)
(* SpecLifecycle an item's timeout is None and _execute_task awaits the    *)
(* body directly; SpecTimeout submits jobs with a timeout.  A body is      *)
(* taken to let a CancelledError thrown at its await through.              *)
(*                                                                         *)
(* The second part is _download_direct_stream of app/downloaders.py: the   *)
(* resumable download of one url into one directory, against a server     *)
(* that answers HEAD and GET (200, 206, 416, 500), a network that may      *)
(* fail and a resource that may be replaced.  Of the .meta.json file the   *)
(* model keeps the ETag: the function reads back only final_name.          *)
(* SpecDownload runs it by itself.                                         *)
(* download_from_url, which chooses between it and the yt-dlp extractor,   *)
(* is run by SpecAcquire with the outcomes of the two as inputs.           *)
(* SpecShared runs the direct stream next to a call for another url that   *)
(* saves into the same directory.  SpecYtdlp runs download_from_url with   *)
(* _download_with_ytdlp itself, the outcome of yt-dlp being the input.     *)
(***************************************************************************)
EXTENDS Integers, Sequences, FiniteSets, TLC

\* ------------------------------------------------------------- bounds
MaxJobs == 3          \* add_task is called at most MaxJobs times
MaxConcurrency == 2   \* max_concurrent_tasks is drawn from 1..MaxConcurrency
MaxPurge == 1         \* the caller's purge_old_results(max_items), max_items in 0..MaxPurge
MaxStarts == 2        \* start() creates a worker at most MaxStarts times
MaxBytes == 3         \* a resource has 1..MaxBytes bytes, and so has the budget
chunk_size == 2       \* iter_chunked(chunk_size): a chunk has 1..chunk_size bytes
MaxFiles == 2         \* the extractor leaves at most MaxFiles files in dest_dir

\* ------------------------------------------------- program constants
PURGE_DEFAULT == 5000 \* add_task: self.purge_old_results(max_items=5000)
_RESUME_RETRIES == 3  \* downloaders.py

WorkerIds == 1..MaxStarts       \* the asyncio.Tasks start() creates
NoWorker == 0                   \* _worker_task is None
Ids == 1..MaxJobs               \* the uuid4 strings add_task hands out
UnknownId == MaxJobs + 1        \* an id add_task never handed out
Times == {0, 1}                 \* time.time() / datetime.now(): two readings order
                                \* any two calls either way (the wall clock may step back)
SteadyTimes == {0}              \* a clock that never steps back: a stable sort on equal
                                \* stamps is the order of creation
Priorities == {0, 1}            \* priority: 0 (PRO), 1 (regular)
Messages == {"boom"}            \* str(e) of an exception a job body raises
NoTimeout == <<>>               \* _timeout=None (an Optional is a sequence of length <= 1)
Timeouts == {NoTimeout, <<0>>, <<1>>}   \* _timeout: None, 0 or a positive number of seconds
DefaultPriority == {1}          \* add_task(..., priority: int = 1, ...)

None == "None"                  \* Python's None stored under a key
Absent == "absent"              \* the key is not in the dict
NoItem == [id |-> 0]                \* a task that is done has let go of its coroutine
NoRec == [status |-> "not_found"]   \* task_results.get(id, {"status": "not_found"})
StopIdle == [pc |-> "idle"]         \* no stop() call is in flight
NoOld == [n |-> 0, created_at |-> 0]  \* a new TaskQueue: task_results = {}

VARIABLES
    _heap,                \* list[_PQItem], kept a binary heap by heapq
    _seq,                 \* submission counter
    active_tasks,         \* keys of the dict task_id -> asyncio.Task
    task,                 \* the asyncio.Task of _execute_task(item), per task_id
    task_results,         \* task_id -> record, NoRec when the key is missing
    res_order,            \* insertion order of task_results' keys
    old_results,          \* the records left of an earlier service: their number
                          \* and created_at (terminal, alike, first in the dict)
    _canceled_ids,        \* set of ids cancel() marked for the worker
    _is_running,
    max_concurrent_tasks,
    _worker_task,         \* the worker start() created last, or NoWorker
    worker,               \* the asyncio.Tasks running _worker(), per worker
    stopper,              \* where a stop() call in flight is suspended
    invoked               \* task_id -> number of times item.func was called

\* _download_direct_stream (downloaders.py) and the things it works on
VARIABLES
    resource,             \* what the url serves now: its ETag and its size
    origin,               \* the server: whether it honours Range, and what
                          \* Content-Length its HEAD declares
    allow_resume,         \* bool(int(RESUME_DOWNLOADS))
    max_size_bytes,       \* max_size_mb * 1024 * 1024
    part,                 \* the file dl_<key>.part
    meta,                 \* the file dl_<key>.meta.json: the ETag it records
    final,                \* the file at final_path
    call,                 \* the call in flight: where it is suspended, its locals
    req_headers,          \* Range and If-Range of the GET being answered
    resp,                 \* the response being read: the size of what it
                          \* serves, the bytes it has yet to deliver
    returned,             \* what the last call returned
    start_part,           \* the .part file as the call in flight found it
    written,              \* the bytes the call in flight wrote to .part
    acquire,              \* the call of download_from_url in flight: its url,
                          \* where it waits, what it tried, what came of it
    other                 \* a call for another url into the same directory:
                          \* its url, where it is, the file at its final
                          \* path when that is not the path of final
VARIABLES
    ytdlp                 \* the extractor: whether yt_dlp was imported,
                          \* whether dest_dir exists, the sizes of the files
                          \* it left there, the file the last call returned

download == <<resource, origin, allow_resume, max_size_bytes, part, meta, final, call,
              req_headers, resp, returned, start_part, written, acquire, other, ytdlp>>

\* the variables of the queue
queue == <<_heap, _seq, active_tasks, task, task_results, res_order, old_results,
           _canceled_ids, _is_running, max_concurrent_tasks, _worker_task,
           worker, stopper, invoked>>

vars == <<queue, download>>

\* ----------------------------------------------------------- _PQItem
\* dataclass(order=True): compares (prio, created_ts, seq); id, func, args,
\* kwargs and timeout have compare=False.
\* (an order on seq alone, to compare with)
ItemLess_BySeq(a, b) == a.seq < b.seq

ItemLess(a, b) ==
    \/ a.prio < b.prio
    \/ a.prio = b.prio /\ a.created_ts < b.created_ts
    \/ a.prio = b.prio /\ a.created_ts = b.created_ts /\ a.seq < b.seq

\* ------------------------------------------------------------- heapq
\* Python positions are 0-based: position p is element p + 1 of the sequence.
RECURSIVE SiftDownLoop(_, _, _, _)
SiftDownLoop(h, startpos, pos, newitem) ==
    IF pos > startpos
    THEN LET parentpos == (pos - 1) \div 2
             parent == h[parentpos + 1]
         IN  IF ItemLess(newitem, parent)
             THEN SiftDownLoop([h EXCEPT ![pos + 1] = parent], startpos, parentpos, newitem)
             ELSE [h EXCEPT ![pos + 1] = newitem]
    ELSE [h EXCEPT ![pos + 1] = newitem]

_siftdown(h, startpos, pos) == SiftDownLoop(h, startpos, pos, h[pos + 1])

RECURSIVE SiftUpLoop(_, _, _, _)
SiftUpLoop(h, startpos, pos, newitem) ==
    LET endpos == Len(h)
        childpos == 2 * pos + 1
    IN  IF childpos < endpos
        THEN LET rightpos == childpos + 1
                 c == IF rightpos < endpos /\ ~ItemLess(h[childpos + 1], h[rightpos + 1])
                      THEN rightpos ELSE childpos
             IN  SiftUpLoop([h EXCEPT ![pos + 1] = h[c + 1]], startpos, c, newitem)
        ELSE _siftdown([h EXCEPT ![pos + 1] = newitem], startpos, pos)

_siftup(h, pos) == SiftUpLoop(h, pos, pos, h[pos + 1])

\* (list.append in place of heappush, to compare with)
heappush_Append(h, item) == Append(h, item)

heappush(h, item) == _siftdown(Append(h, item), 0, Len(h))

\* (a pop that hands out the last item of the list, to compare with)
heappop_item_Last(h) == h[Len(h)]

\* heappop: the item returned, and the list left behind
heappop_item(h) == IF Len(h) = 1 THEN h[Len(h)] ELSE h[1]

\* (a pop that drops the first item and moves nothing, to compare with)
heappop_rest_Tail(h) == Tail(h)

heappop_rest(h) ==
    LET lastelt == h[Len(h)]
        rest == SubSeq(h, 1, Len(h) - 1)
    IN  IF rest # <<>> THEN _siftup([rest EXCEPT ![1] = lastelt], 0) ELSE rest

\* (no heapify after the removal, to compare with)
heapify_Skip(h) == h

RECURSIVE HeapifyLoop(_, _)
HeapifyLoop(h, i) == IF i < 0 THEN h ELSE HeapifyLoop(_siftup(h, i), i - 1)

heapify(h) == HeapifyLoop(h, (Len(h) \div 2) - 1)

\* (a pop that removes nothing, to compare with)
list_pop_Keep(h, idx) == h

\* list.pop(idx), idx 0-based
list_pop(h, idx) == SubSeq(h, 1, idx) \o SubSeq(h, idx + 2, Len(h))

\* ------------------------------------------------- views of the state
HeapIds == {_heap[i].id : i \in 1..Len(_heap)}
Status(id) == task_results[id].status
SeqToSet(s) == {s[i] : i \in 1..Len(s)}

\* ------------------------------------------------- purge_old_results
\* items.sort(key=created_at) is stable: equal stamps keep the dict's order.
PosIn(order, id) == CHOOSE i \in 1..Len(order) : order[i] = id

\* (a sort that puts the newest first, to compare with)
OlderThan_Reversed(results, order, a, b) ==
    \/ results[a].created_at > results[b].created_at
    \/ results[a].created_at = results[b].created_at /\ PosIn(order, a) < PosIn(order, b)

\* a sorts before b
OlderThan(results, order, a, b) ==
    \/ results[a].created_at < results[b].created_at
    \/ results[a].created_at = results[b].created_at /\ PosIn(order, a) < PosIn(order, b)

\* n = len(self.task_results)
TotalRecords(order, old) == Len(order) + old.n

\* (a rank among the records of this service alone, to compare with)
Rank_NoHistory(results, order, old, id) ==
    Cardinality({j \in 1..Len(order) : OlderThan(results, order, order[j], id)})

\* the number of records that sort before record id: the records of the
\* earlier service come before a record of the same created_at
Rank(results, order, old, id) ==
    Cardinality({j \in 1..Len(order) : OlderThan(results, order, order[j], id)})
        + (IF old.n > 0 /\ results[id].created_at >= old.created_at THEN old.n ELSE 0)

\* the ids purge_old_results(max_items) pops: the n - max_items oldest
PurgeDropped(results, order, old, max_items) ==
    LET n == TotalRecords(order, old)
    IN  IF n <= max_items THEN {}
        ELSE {id \in SeqToSet(order) : Rank(results, order, old, id) < n - max_items}

SelectSeqNotIn(s, D) == SelectSeq(s, LAMBDA x : x \notin D)

PurgedResults(results, order, old, max_items) ==
    LET dropped == PurgeDropped(results, order, old, max_items)
    IN  IF dropped = {} THEN results
        ELSE [id \in DOMAIN results |-> IF id \in dropped THEN NoRec ELSE results[id]]

PurgedOrder(results, order, old, max_items) ==
    LET dropped == PurgeDropped(results, order, old, max_items)
    IN  IF dropped = {} THEN order ELSE SelectSeqNotIn(order, dropped)

\* what the purge leaves of the records of the earlier service
PurgedOld(results, order, old, max_items) ==
    LET n == TotalRecords(order, old)
        before == Cardinality({i \in 1..Len(order) : results[order[i]].created_at < old.created_at})
        k == n - max_items - before
        d == IF k < 0 THEN 0 ELSE IF k > old.n THEN old.n ELSE k
    IN  IF n <= max_items \/ old.n = 0 THEN old ELSE [old EXCEPT !.n = @ - d]

\* --------------------------------------------------------------- Init
\* TaskQueue.__init__, task_results holding the records old
Constructed(old) ==
    /\ _heap = <<>>
    /\ _seq = 0
    /\ active_tasks = {}
    /\ task = [id \in Ids |-> [st |-> "none", must_cancel |-> FALSE, item |-> NoItem]]
    /\ task_results = [id \in Ids \cup {UnknownId} |-> NoRec]
    /\ res_order = <<>>
    /\ old_results = old
    /\ _canceled_ids = {}
    /\ _is_running = FALSE
    /\ _worker_task = NoWorker
    /\ max_concurrent_tasks \in 1..MaxConcurrency
    /\ worker = [w \in WorkerIds |-> [st |-> "none", must_cancel |-> FALSE]]
    /\ stopper = StopIdle
    /\ invoked = [id \in Ids |-> 0]

\* no download: one resource, nothing on the disk, no call made
NoFile == <<>>
NoResp == [size |-> 0, left |-> <<>>]
NoHeaders == [Range |-> <<>>, If_Range |-> <<>>]
NoUrl == [scheme |-> "", media_ext |-> FALSE, ytdlp_domain |-> FALSE]
NoValue == [success |-> FALSE, by |-> "", error |-> ""]
NoAcquire == [pc |-> "idle", url |-> NoUrl, tried |-> <<>>, res |-> NoValue,
              value |-> NoValue, raised |-> ""]
NoCall == [pc |-> "idle", downloaded |-> 0, total_written |-> 0, expected_size |-> <<>>,
           accept_ranges |-> FALSE, etag |-> <<>>, attempts |-> 0]

\* the url of the transfer, and the urls another call may be given
Locator == [host |-> "a.example", tail |-> "x.mp3"]
OtherLocators == {[host |-> "b.example", tail |-> "x.mp3"],
                  [host |-> "b.example", tail |-> "y.mp3"]}

\* no other call has been made
NoOther == [url |-> [host |-> "b.example", tail |-> "y.mp3"], pc |-> "idle",
            part |-> NoFile, final |-> NoFile]

\* yt_dlp imported, nothing on the disk
NoYtdlp == [installed |-> TRUE, dest_dir |-> FALSE, files |-> <<>>, path |-> <<>>]

NoTransfer ==
    /\ resource = [etag |-> 1, size |-> 1]
    /\ origin = [ranges |-> TRUE, declares |-> "exact"]
    /\ allow_resume = TRUE
    /\ max_size_bytes = 1
    /\ part = NoFile
    /\ meta = NoFile
    /\ final = NoFile
    /\ call = NoCall
    /\ req_headers = NoHeaders
    /\ resp = NoResp
    /\ returned = "none"
    /\ start_part = NoFile
    /\ written = 0
    /\ acquire = NoAcquire
    /\ other = NoOther
    /\ ytdlp = NoYtdlp

Init == Constructed(NoOld) /\ NoTransfer

\* The queue after a long service: every job submitted so far has ended, and
\* the history holds PURGE_DEFAULT records, or one less, created at the
\* latest reading of the clock: a job submitted now is stamped with the same
\* reading or, the clock having stepped back, with an earlier one.
\* (_seq and the ids count from the end of that service.)
LatestTime == CHOOSE t \in Times : \A u \in Times : u <= t

InitHistory ==
    \E n \in {PURGE_DEFAULT - 1, PURGE_DEFAULT} :
        Constructed([n |-> n, created_at |-> LatestTime]) /\ NoTransfer

\* A worker that has popped or skipped an item goes round its loop without
\* suspending: until it sleeps, nothing else runs on the event loop.
Busy == \E w \in WorkerIds : worker[w].st = "awake"

\* ----------------------------------------------------------- add_task
\* The lock is never held across a suspension, so acquiring it never waits and
\* add_task runs to its return in one piece.  The uuid is modelled by the
\* number of the call; created_ts is whatever the wall clock reads.
add_task(priority, created_ts, _timeout) ==
    /\ ~Busy
    /\ _seq < MaxJobs
    /\ LET task_id == _seq + 1
           item == [prio |-> priority, created_ts |-> created_ts,
                    seq |-> _seq + 1, id |-> task_id, timeout |-> _timeout]
           results1 == [task_results EXCEPT ![task_id] =
                           [status |-> "queued", created_at |-> created_ts,
                            result |-> Absent, error |-> Absent]]
           order1 == Append(res_order, task_id)
       IN  /\ _seq' = _seq + 1
           /\ _heap' = heappush(_heap, item)
           /\ task_results' = PurgedResults(results1, order1, old_results, PURGE_DEFAULT)
           /\ res_order' = PurgedOrder(results1, order1, old_results, PURGE_DEFAULT)
           /\ old_results' = PurgedOld(results1, order1, old_results, PURGE_DEFAULT)
    /\ UNCHANGED <<download, active_tasks, task, _canceled_ids, _is_running, _worker_task,
                   max_concurrent_tasks, worker, stopper, invoked>>

\* ------------------------------------------------------------ _worker
\* (an update of the status alone, to compare with)
CanceledRecord_StatusOnly(results, id, now) ==
    [status |-> "canceled",
     created_at |-> IF results[id] = NoRec THEN now ELSE results[id].created_at,
     result |-> Absent, error |-> Absent]

\* rec = task_results.setdefault(id, {"created_at": now}); rec.update(canceled)
CanceledRecord(results, id, now) ==
    [status |-> "canceled",
     created_at |-> IF results[id] = NoRec THEN now ELSE results[id].created_at,
     result |-> None, error |-> "canceled"]

SetCanceled(results, id, now) == [results EXCEPT ![id] = CanceledRecord(results, id, now)]

OrderWith(results, order, id) == IF results[id] = NoRec THEN Append(order, id) ELSE order

\* "if len(self.active_tasks) >= self.max_concurrent_tasks": no free slot
\* (a slot check that lets one job too many in, to compare with)
SlotsFull_OffByOne == Cardinality(active_tasks) > max_concurrent_tasks

SlotsFull == Cardinality(active_tasks) >= max_concurrent_tasks

\* A worker ends while stop() awaits it: stop() resumes after the tasks that
\* were created before and have not run yet (the event loop runs what is ready
\* in the order it became ready).
WorkerEnded(w) ==
    IF stopper.pc = "await_worker" /\ stopper.w = w
    THEN [stopper EXCEPT !.first = {id \in Ids : task[id].st = "pending"}]
    ELSE stopper

\* One pass of the while loop of a worker that holds the event loop: from the
\* test of _is_running to the sleep, the continue or the task's creation.
WorkerLoop(w, T) ==
    IF ~_is_running
    THEN /\ worker' = [worker EXCEPT ![w].st = "done"]
         /\ stopper' = WorkerEnded(w)
         /\ UNCHANGED <<_heap, active_tasks, task, task_results, res_order, _canceled_ids>>
    ELSE IF SlotsFull \/ _heap = <<>>
    THEN /\ worker' = [worker EXCEPT ![w].st = "sleeping"]
         /\ UNCHANGED <<_heap, active_tasks, task, task_results, res_order, _canceled_ids,
                        stopper>>
    ELSE LET item == heappop_item(_heap)
         IN  /\ _heap' = heappop_rest(_heap)
             /\ stopper' = stopper
             /\ IF item.id \in _canceled_ids
                THEN /\ _canceled_ids' = _canceled_ids \ {item.id}
                     /\ \E now \in T : task_results' = SetCanceled(task_results, item.id, now)
                     /\ res_order' = OrderWith(task_results, res_order, item.id)
                     /\ worker' = [worker EXCEPT ![w].st = "awake"]
                     /\ UNCHANGED <<active_tasks, task>>
                ELSE IF task_results[item.id] = NoRec
                THEN \* KeyError at task_results[task_id]: except Exception, sleep(0.1)
                     /\ worker' = [worker EXCEPT ![w].st = "sleeping"]
                     /\ UNCHANGED <<active_tasks, task, task_results, res_order, _canceled_ids>>
                ELSE /\ task_results' = [task_results EXCEPT ![item.id].status = "processing"]
                     /\ task' = [task EXCEPT ![item.id] = [st |-> "pending", must_cancel |-> FALSE,
                                                         item |-> item]]
                     /\ active_tasks' = active_tasks \cup {item.id}
                     /\ worker' = [worker EXCEPT ![w].st = "awake"]
                     /\ UNCHANGED <<res_order, _canceled_ids>>

\* The worker runs: its first step, a wake-up from a sleep, or the next pass
\* of a loop that did not suspend.
_worker(w, T) ==
    /\ \/ worker[w].st = "awake"
       \/ ~Busy /\ worker[w].st \in {"pending", "sleeping"} /\ ~worker[w].must_cancel
    /\ WorkerLoop(w, T)
    /\ UNCHANGED <<download, old_results, _seq, _is_running, _worker_task, max_concurrent_tasks,
                   invoked>>

\* The worker's task was cancelled: CancelledError at its sleep ends the loop
\* (a task cancelled before its first step never runs at all).
_worker_cancelled(w) ==
    /\ ~Busy
    /\ worker[w].st \in {"pending", "sleeping"}
    /\ worker[w].must_cancel
    /\ worker' = [worker EXCEPT ![w].st = "done"]
    /\ stopper' = WorkerEnded(w)
    /\ UNCHANGED <<download, old_results, _heap, _seq, active_tasks, task, task_results, res_order,
                   _canceled_ids, _is_running, _worker_task, max_concurrent_tasks,
                   invoked>>

\* ------------------------------------------------------ _execute_task
\* (an end of the task without the finally, to compare with)
Finish_KeepSlot(id, status, result, error) ==
    /\ task_results' =
          IF task_results[id] = NoRec THEN task_results
          ELSE [task_results EXCEPT ![id].status = status,
                                    ![id].result = result,
                                    ![id].error = error]
    /\ active_tasks' = active_tasks
    /\ task' = [task EXCEPT ![id] = [st |-> "done", must_cancel |-> FALSE, item |-> NoItem]]

\* task_results[task_id].update(...) of the branch taken, then the finally.
\* When the record is gone the update raises KeyError (in the try it is caught
\* by "except Exception", whose own update raises again): only the finally's
\* active_tasks.pop is left of the step.
Finish(id, status, result, error) ==
    /\ task_results' =
          IF task_results[id] = NoRec THEN task_results
          ELSE [task_results EXCEPT ![id].status = status,
                                    ![id].result = result,
                                    ![id].error = error]
    /\ active_tasks' = active_tasks \ {id}
    /\ task' = [task EXCEPT ![id] = [st |-> "done", must_cancel |-> FALSE, item |-> NoItem]]

\* The body of a job is any coroutine function: called, it returns a result,
\* raises an exception or suspends at an await.
\* The exceptions of Messages are those "except Exception" receives (neither
\* asyncio.TimeoutError nor CancelledError raised by the body itself).
BodyReturns(id) ==
    Finish(id, "completed", "ok", None)

BodyRaises(id, msg) ==
    Finish(id, "failed", None, msg)

BodySuspends(id) ==
    /\ task' = [task EXCEPT ![id].st = "running"]
    /\ UNCHANGED <<task_results, active_tasks>>

\* First step of the task the worker created: item.func(*args) is called.
_execute_task_start(id) ==
    /\ ~Busy
    /\ task[id].st = "pending"
    /\ ~task[id].must_cancel
    /\ invoked' = [invoked EXCEPT ![id] = @ + 1]
    /\ \/ BodyReturns(id)
       \/ \E msg \in Messages : BodyRaises(id, msg)
       \/ BodySuspends(id)
    /\ UNCHANGED <<download, old_results, _heap, _seq, res_order, _canceled_ids, _is_running, _worker_task,
                   max_concurrent_tasks, worker, stopper>>

\* The suspended body is resumed and ends.
_execute_task_resume(id) ==
    /\ ~Busy
    /\ task[id].st = "running"
    /\ ~task[id].must_cancel
    /\ \/ BodyReturns(id)
       \/ \E msg \in Messages : BodyRaises(id, msg)
    /\ UNCHANGED <<download, old_results, _heap, _seq, res_order, _canceled_ids, _is_running, _worker_task,
                   max_concurrent_tasks, worker, stopper, invoked>>

\* Task.cancel() reached a suspended body: CancelledError is thrown at its
\* await and the body lets it through ("except asyncio.CancelledError").
_execute_task_cancelled(id) ==
    /\ ~Busy
    /\ task[id].st = "running"
    /\ task[id].must_cancel
    /\ Finish(id, "canceled", None, "canceled")
    /\ UNCHANGED <<download, old_results, _heap, _seq, res_order, _canceled_ids, _is_running, _worker_task,
                   max_concurrent_tasks, worker, stopper, invoked>>

\* "if item.timeout is not None and item.timeout > 0": wait_for is used
HasTimeout(item) == item.timeout # NoTimeout /\ item.timeout[1] > 0

\* f"timeout({item.timeout}s)"
TimeoutMarker(item) ==
    IF item.timeout = NoTimeout THEN "timeout(Nones)"
    ELSE IF item.timeout[1] = 0 THEN "timeout(0s)"
    ELSE "timeout(1s)"

\* The body is suspended when the timeout runs out: wait_for cancels it and
\* raises TimeoutError, which "except asyncio.TimeoutError" records.
_execute_task_timeout(id) ==
    /\ ~Busy
    /\ task[id].st = "running"
    /\ ~task[id].must_cancel
    /\ HasTimeout(task[id].item)
    /\ Finish(id, "failed", None, TimeoutMarker(task[id].item))
    /\ UNCHANGED <<download, old_results, _heap, _seq, res_order, _canceled_ids, _is_running, _worker_task,
                   max_concurrent_tasks, worker, stopper, invoked>>

\* The body itself raises TimeoutError (since Python 3.11 asyncio.TimeoutError
\* is the builtin one): the same except clause receives it.
_execute_task_body_timeout(id) ==
    /\ ~Busy
    /\ task[id].st \in {"pending", "running"}
    /\ ~task[id].must_cancel
    /\ invoked' = [invoked EXCEPT ![id] = IF task[id].st = "pending" THEN @ + 1 ELSE @]
    /\ Finish(id, "failed", None, TimeoutMarker(task[id].item))
    /\ UNCHANGED <<download, old_results, _heap, _seq, res_order, _canceled_ids, _is_running, _worker_task,
                   max_concurrent_tasks, worker, stopper>>

\* Task.cancel() reached a task that never ran: its first step throws
\* CancelledError into a coroutine that has not entered its try statement, so
\* neither an except clause nor the finally of _execute_task runs.
_execute_task_never_run(id) ==
    /\ ~Busy
    /\ task[id].st = "pending"
    /\ task[id].must_cancel
    /\ task' = [task EXCEPT ![id] = [st |-> "done", must_cancel |-> FALSE, item |-> NoItem]]
    /\ UNCHANGED <<download, old_results, _heap, _seq, active_tasks, task_results, res_order, _canceled_ids,
                   _is_running, _worker_task, max_concurrent_tasks, worker, stopper,
                   invoked>>

\* ------------------------------------------------------------- cancel
\* (enumerate counting from 1, to compare with)
HeapIndex_FromOne(h, id) ==
    CHOOSE i \in 1..Len(h) : h[i].id = id /\ \A j \in 1..(i - 1) : h[j].id # id

\* position (0-based) of the first item of the heap list with this id
HeapIndex(h, id) == (CHOOSE i \in 1..Len(h) : h[i].id = id /\ \A j \in 1..(i - 1) : h[j].id # id) - 1

TaskNotDone(id) == id \in active_tasks /\ task[id].st # "done"

\* (a third place that looks for a record of any status, to compare with)
CancelBranch_AnyRecord(task_id) ==
    IF \E i \in 1..Len(_heap) : _heap[i].id = task_id THEN 1
    ELSE IF TaskNotDone(task_id) THEN 2
    ELSE IF task_results[task_id] # NoRec THEN 3
    ELSE 0

\* which of cancel's three places acts on task_id (0: none, cancel returns False)
CancelBranch(task_id) ==
    IF \E i \in 1..Len(_heap) : _heap[i].id = task_id THEN 1
    ELSE IF TaskNotDone(task_id) THEN 2
    ELSE IF Status(task_id) \in {"queued", "processing"} THEN 3
    ELSE 0

\* the value cancel(task_id) returns
CancelValue(task_id) == CancelBranch(task_id) # 0

cancel(task_id, T) ==
    /\ ~Busy
    /\ IF CancelBranch(task_id) = 1
       THEN /\ _heap' = heapify(list_pop(_heap, HeapIndex(_heap, task_id)))
            /\ \E now \in T : task_results' = SetCanceled(task_results, task_id, now)
            /\ res_order' = OrderWith(task_results, res_order, task_id)
            /\ UNCHANGED <<task, _canceled_ids>>
       ELSE IF CancelBranch(task_id) = 2
       THEN /\ task' = [task EXCEPT ![task_id].must_cancel = TRUE]
            /\ UNCHANGED <<_heap, task_results, res_order, _canceled_ids>>
       ELSE IF CancelBranch(task_id) = 3
       THEN /\ _canceled_ids' = _canceled_ids \cup {task_id}
            /\ UNCHANGED <<_heap, task, task_results, res_order>>
       ELSE UNCHANGED <<_heap, task, task_results, res_order, _canceled_ids>>
    /\ UNCHANGED <<download, old_results, _seq, active_tasks, _is_running, _worker_task, max_concurrent_tasks,
                   worker, stopper, invoked>>

\* -------------------------------------------------- get_task_position
\* sorted(items): the list in the order of _PQItem (an insertion sort; the
\* order is total on the items of a heap, their seq being distinct)
RECURSIVE InsertSorted(_, _)
InsertSorted(sortedItems, item) ==
    IF sortedItems = <<>> THEN <<item>>
    ELSE IF ItemLess(item, Head(sortedItems)) THEN <<item>> \o sortedItems
    ELSE <<Head(sortedItems)>> \o InsertSorted(Tail(sortedItems), item)

RECURSIVE sorted(_)
sorted(items) ==
    IF items = <<>> THEN <<>>
    ELSE InsertSorted(sorted(SubSeq(items, 1, Len(items) - 1)), items[Len(items)])

\* the value get_task_position returns: <<idx>>, or <<>> for None
get_task_position(task_id) ==
    LET items_sorted == sorted(_heap)
        hits == {i \in 1..Len(items_sorted) : items_sorted[i].id = task_id}
    IN  IF hits = {} THEN <<>>
        ELSE <<(CHOOSE i \in hits : \A j \in hits : i <= j) - 1>>

\* ---------------------------------------------------- get_queue_stats
get_queue_stats ==
    [queue_size     |-> Len(_heap),
     active_tasks   |-> Cardinality(active_tasks),
     total_tasks    |-> TotalRecords(res_order, old_results),
     max_concurrent |-> max_concurrent_tasks]

\* ------------------------------------------------- purge_old_results
purge_old_results(max_items) ==
    /\ ~Busy
    /\ task_results' = PurgedResults(task_results, res_order, old_results, max_items)
    /\ res_order' = PurgedOrder(task_results, res_order, old_results, max_items)
    /\ old_results' = PurgedOld(task_results, res_order, old_results, max_items)
    /\ UNCHANGED <<download, _heap, _seq, active_tasks, task, _canceled_ids, _is_running,
                   _worker_task, max_concurrent_tasks, worker, stopper, invoked>>

\* -------------------------------------------------------------- start
NewWorker == CHOOSE w \in WorkerIds : worker[w].st = "none" /\ \A v \in 1..(w - 1) : worker[v].st # "none"

start ==
    /\ ~Busy
    /\ IF _is_running
       THEN UNCHANGED <<_is_running, _worker_task, worker>>
       ELSE /\ \E w \in WorkerIds : worker[w].st = "none"
            /\ _is_running' = TRUE
            /\ _worker_task' = NewWorker
            /\ worker' = [worker EXCEPT ![NewWorker] = [st |-> "pending", must_cancel |-> FALSE]]
    /\ UNCHANGED <<download, old_results, _heap, _seq, active_tasks, task, task_results, res_order,
                   _canceled_ids, max_concurrent_tasks, stopper, invoked>>

\* --------------------------------------------------------------- stop
\* Task.cancel() on every active task that is not done
CancelActive(tasks) ==
    [id \in Ids |-> IF id \in active_tasks /\ tasks[id].st # "done"
                    THEN [tasks[id] EXCEPT !.must_cancel = TRUE] ELSE tasks[id]]

\* "if graceful and self.active_tasks: await asyncio.gather(...)": stop()
\* returns at once when there is nothing to wait for.
StopGather(graceful, cancelled) ==
    IF graceful /\ \E id \in active_tasks : task'[id].st # "done"
    THEN stopper' = [pc |-> "gather", waiting |-> active_tasks, cancelled |-> cancelled]
    ELSE stopper' = StopIdle

\* from "if cancel_active:" to the next suspension or the return
StopTail(graceful, cancel_active) ==
    IF cancel_active
    THEN /\ task' = CancelActive(task)
         /\ stopper' = [pc |-> "sleep0", graceful |-> graceful,
                        cancelled |-> {id \in active_tasks : task[id].st # "done"}]
    ELSE /\ task' = task
         /\ StopGather(graceful, {})

\* stop() up to its first suspension.  One stop() is in flight at a time.
stop(graceful, cancel_active) ==
    /\ ~Busy
    /\ stopper.pc = "idle"
    /\ IF ~_is_running
       THEN UNCHANGED <<_is_running, worker, task, stopper>>
       ELSE /\ _is_running' = FALSE
            /\ IF _worker_task # NoWorker
               THEN /\ worker' = [worker EXCEPT ![_worker_task].must_cancel =
                                     (worker[_worker_task].st # "done")]
                    /\ stopper' = [pc |-> "await_worker", w |-> _worker_task,
                                   graceful |-> graceful, cancel_active |-> cancel_active,
                                   first |-> {}]
                    /\ task' = task
               ELSE /\ worker' = worker
                    /\ StopTail(graceful, cancel_active)
    /\ UNCHANGED <<download, old_results, _heap, _seq, active_tasks, task_results, res_order, _canceled_ids,
                   _worker_task, max_concurrent_tasks, invoked>>

\* "await self._worker_task" returned (or raised CancelledError, swallowed)
stop_after_worker ==
    /\ ~Busy
    /\ stopper.pc = "await_worker"
    /\ worker[stopper.w].st = "done"
    /\ \A id \in stopper.first : task[id].st # "pending"
    /\ _worker_task' = NoWorker
    /\ StopTail(stopper.graceful, stopper.cancel_active)
    /\ UNCHANGED <<download, old_results, _heap, _seq, active_tasks, task_results, res_order, _canceled_ids,
                   _is_running, max_concurrent_tasks, worker, invoked>>

\* "await asyncio.sleep(0)" returned
stop_after_sleep ==
    /\ ~Busy
    /\ stopper.pc = "sleep0"
    /\ task' = task
    /\ StopGather(stopper.graceful, stopper.cancelled)
    /\ UNCHANGED <<download, old_results, _heap, _seq, active_tasks, task_results, res_order, _canceled_ids,
                   _is_running, _worker_task, max_concurrent_tasks, worker, invoked>>

\* every task gather() was given is done
stop_after_gather ==
    /\ ~Busy
    /\ stopper.pc = "gather"
    /\ \A id \in stopper.waiting : task[id].st = "done"
    /\ stopper' = StopIdle
    /\ UNCHANGED <<download, old_results, _heap, _seq, active_tasks, task, task_results, res_order,
                   _canceled_ids, _is_running, _worker_task, max_concurrent_tasks,
                   worker, invoked>>

\* ----------------------------------------------------- specification
\* The queue in service, datetime.now() and time.time() reading values of T:
\* start() is called, and jobs are submitted, run and cancelled in any order.
Run(T) ==
    \/ \E w \in WorkerIds : _worker(w, T)
    \/ \E id \in Ids : _execute_task_start(id)
    \/ \E id \in Ids : _execute_task_resume(id)
    \/ \E id \in Ids : _execute_task_cancelled(id)
    \/ \E id \in Ids : _execute_task_never_run(id)
    \/ \E id \in Ids \cup {UnknownId} : cancel(id, T)
    \/ start

Serve(T) ==
    \/ \E p \in Priorities, t \in T : add_task(p, t, NoTimeout)
    \/ Run(T)

\* The queue as bot.py drives it: purge_old_results is called by add_task
\* alone, and the wall clock may step back between two readings.
Next == Serve(Times)

Spec == Init /\ [][Next]_vars

\* The same, on a queue whose history is full.
SpecHistory == InitHistory /\ [][Next]_vars

\* A caller that also purges, under a clock that never steps back.
NextPurge ==
    \/ Serve(SteadyTimes)
    \/ \E m \in 0..MaxPurge : purge_old_results(m)

SpecPurge == Init /\ [][NextPurge]_vars

\* With stop() and restarts, under a clock that never steps back.
NextLifecycle ==
    \/ Serve(SteadyTimes)
    \/ \E w \in WorkerIds : _worker_cancelled(w)
    \/ \E g \in BOOLEAN, c \in BOOLEAN : stop(g, c)
    \/ stop_after_worker
    \/ stop_after_sleep
    \/ stop_after_gather

SpecLifecycle == Init /\ [][NextLifecycle]_vars

\* The same with every job at the default priority.
NextRestart ==
    \/ \E p \in DefaultPriority, t \in SteadyTimes : add_task(p, t, NoTimeout)
    \/ Run(SteadyTimes)
    \/ \E w \in WorkerIds : _worker_cancelled(w)
    \/ \E g \in BOOLEAN, c \in BOOLEAN : stop(g, c)
    \/ stop_after_worker
    \/ stop_after_sleep
    \/ stop_after_gather

SpecRestart == Init /\ [][NextRestart]_vars

\* The same with the event loop's scheduling: start() is called, and a task
\* that is ready to run (the worker after its sleep, the task of a job after
\* create_task, a body whose await is over or was cancelled) is run.
Scheduling ==
    /\ WF_vars(start)
    /\ \A w \in WorkerIds : WF_vars(_worker(w, SteadyTimes))
    /\ \A id \in Ids :
          /\ WF_vars(_execute_task_start(id))
          /\ WF_vars(_execute_task_resume(id))
          /\ WF_vars(_execute_task_cancelled(id))
          /\ WF_vars(_execute_task_never_run(id))

SpecLive == Init /\ [][NextPurge]_vars /\ Scheduling

\* The store of records by itself, no worker running: jobs are submitted and
\* cancelled under a clock that may step back, and the caller purges.
NextRetention ==
    \/ \E p \in Priorities, t \in Times : add_task(p, t, NoTimeout)
    \/ \E id \in Ids \cup {UnknownId} : cancel(id, Times)
    \/ \E m \in 0..MaxPurge : purge_old_results(m)

SpecRetention == Init /\ [][NextRetention]_vars

\* Jobs submitted with and without a timeout, at the default priority, under
\* a clock that never steps back; a body may raise TimeoutError itself.
NextTimeout ==
    \/ \E p \in DefaultPriority, t \in SteadyTimes, to \in Timeouts : add_task(p, t, to)
    \/ Run(SteadyTimes)
    \/ \E id \in Ids : _execute_task_timeout(id)
    \/ \E id \in Ids : _execute_task_body_timeout(id)

SpecTimeout == Init /\ [][NextTimeout]_vars

\* ------------------------------------------- _download_direct_stream
\* Sizes are counted in bytes; a byte is told by the version (ETag) of the
\* resource it belongs to and by its offset.
Byte(etag, i) == etag * 10 + i

\* the body of a resource
Body(r) == [i \in 1..r.size |-> Byte(r.etag, i)]

Exists(file) == file # NoFile
\* os.path.getsize(path) if os.path.exists(path) else 0
Size(file) == IF Exists(file) THEN Len(file[1]) ELSE 0
\* (a file that keeps none of the bytes written, to compare with)
FileOf_Empty(bytes) == <<<<>>>>

\* the file holding bytes
FileOf(bytes) == <<bytes>>

\* (a HEAD answer whose Content-Length is not read, to compare with)
Declared_Unread(r) == <<>>

\* the Content-Length of the HEAD answer: right, missing, or too small
Declared(r) ==
    CASE origin.declares = "exact"  -> <<r.size>>
      [] origin.declares = "absent" -> <<>>
      [] origin.declares = "under"  -> <<r.size - 1>>

\* the call returns value: its locals are gone
Return(value) ==
    /\ call' = [NoCall EXCEPT !.pc = "returned"]
    /\ returned' = value
    /\ resp' = NoResp

\* The call up to its first GET: the size of the .part file, the HEAD probe
\* (head_ok: it answered 2xx; otherwise it raised or answered an error), and
\* the removal of a .part file the server cannot continue.
_download_direct_stream(head_ok) ==
    /\ call.pc \in {"idle", "returned"}
    /\ LET downloaded == Size(part)
           expected_size == IF head_ok THEN Declared(resource) ELSE <<>>
           accept_ranges == head_ok /\ origin.ranges
           etag == IF head_ok THEN <<resource.etag>> ELSE <<>>
           discard == downloaded > 0 /\ ~accept_ranges
       IN  IF expected_size # <<>> /\ expected_size[1] > max_size_bytes
           THEN /\ Return("over_budget")
                /\ UNCHANGED part
           ELSE /\ part' = IF discard THEN NoFile ELSE part
                /\ call' = [pc |-> "get",
                            downloaded |-> IF discard THEN 0 ELSE downloaded,
                            total_written |-> IF discard THEN 0 ELSE downloaded,
                            expected_size |-> expected_size,
                            accept_ranges |-> accept_ranges,
                            etag |-> etag,
                            attempts |-> 0]
                /\ returned' = "none"
                /\ resp' = NoResp
    /\ start_part' = part
    /\ written' = 0
    /\ req_headers' = NoHeaders
    /\ UNCHANGED <<resource, origin, allow_resume, max_size_bytes, meta, final>>
    /\ UNCHANGED <<acquire, other, ytdlp, queue>>

\* (a request that never asks for a range, to compare with)
RequestRange_Never(resume, downloaded, accept_ranges) == <<>>

\* (a request that asks for a range whatever the probe said, to compare with)
RequestRange_IgnoreProbe(resume, downloaded, accept_ranges) ==
    IF resume /\ downloaded > 0 THEN <<downloaded>> ELSE <<>>

\* (a request that asks again for the last byte it has, to compare with)
RequestRange_Behind(resume, downloaded, accept_ranges) ==
    IF resume /\ downloaded > 0 /\ accept_ranges THEN <<downloaded - 1>> ELSE <<>>

\* req_headers["Range"] = f"bytes={downloaded}-", when it is set
RequestRange(resume, downloaded, accept_ranges) ==
    IF resume /\ downloaded > 0 /\ accept_ranges THEN <<downloaded>> ELSE <<>>

\* The answer of the server to GET with Range range and If-Range if_range.
ResponseStatus(range, if_range) ==
    IF range = <<>> \/ ~origin.ranges THEN "200"
    ELSE IF if_range # <<>> /\ if_range[1] # resource.etag THEN "200"
    ELSE IF range[1] >= resource.size THEN "416"
    ELSE "206"

\* _save_meta(meta_path, meta) once meta["etag"] is the ETag of the answer
_save_meta(etag) == FileOf([etag |-> etag])

\* One turn of the loop up to the first chunk: the GET (get_ok: the server
\* answers as ResponseStatus says; otherwise it answers 500), the restart when a
\* range was asked and 200 came, Content-Range, the .meta.json file,
\* and open(part_path, mode).
_download_direct_stream_get(get_ok) ==
    /\ call.pc = "get"
    /\ LET range == RequestRange(allow_resume, call.downloaded, call.accept_ranges)
           if_range == IF range # <<>> THEN call.etag ELSE <<>>
           status == IF get_ok THEN ResponseStatus(range, if_range) ELSE "500"
           restart == range # <<>> /\ status = "200"
           mode == IF range # <<>> /\ ~restart THEN "ab" ELSE "wb"
       IN  /\ req_headers' = [Range |-> range, If_Range |-> if_range]
           /\ IF status \notin {"200", "206"}
              THEN /\ Return("http")
                   /\ UNCHANGED <<part, meta>>
              ELSE /\ meta' = _save_meta(resource.etag)
                   /\ call' = [call EXCEPT
                                  !.pc = "stream",
                                  !.downloaded = IF restart THEN 0 ELSE @,
                                  !.total_written = IF restart THEN 0 ELSE @,
                                  !.expected_size = IF status = "206" THEN <<resource.size>> ELSE @]
                   /\ part' = IF mode = "ab" /\ Exists(part) THEN part ELSE FileOf(<<>>)
                   /\ resp' = [size |-> resource.size,
                               left |-> IF status = "206"
                                        THEN SubSeq(Body(resource), range[1] + 1, resource.size)
                                        ELSE Body(resource)]
                   /\ UNCHANGED returned
    /\ UNCHANGED <<resource, origin, allow_resume, max_size_bytes, final, start_part, written>>
    /\ UNCHANGED <<acquire, other, ytdlp, queue>>

\* (a budget that is never checked, to compare with)
OverBudget_Never(total_written) == FALSE

\* total_written > max_size_mb * 1024 * 1024
OverBudget(total_written) == total_written > max_size_bytes

\* One chunk of n bytes: f.write(chunk), the two counters, the budget.
_download_direct_stream_chunk(n) ==
    /\ call.pc = "stream"
    /\ n <= Len(resp.left)
    /\ LET chunk == SubSeq(resp.left, 1, n)
           total_written == call.total_written + n
       IN  /\ written' = written + n
           /\ IF OverBudget(total_written)
              THEN /\ part' = NoFile
                   /\ Return("over_budget")
                   /\ req_headers' = NoHeaders
              ELSE /\ part' = FileOf(part[1] \o chunk)
                   /\ UNCHANGED req_headers
                   /\ resp' = [resp EXCEPT !.left = SubSeq(@, n + 1, Len(@))]
                   /\ call' = [call EXCEPT !.total_written = total_written,
                                           !.downloaded = @ + n]
                   /\ UNCHANGED returned
    /\ UNCHANGED <<resource, origin, allow_resume, max_size_bytes, meta, final, start_part>>
    /\ UNCHANGED <<acquire, other, ytdlp, queue>>

\* (a loop that takes one turn more before it gives up, to compare with)
Retry_OneMore(error) ==
    /\ IF call.attempts > _RESUME_RETRIES \/ (error = "network" /\ ~allow_resume)
       THEN Return(error)
       ELSE /\ call' = [call EXCEPT !.pc = "get", !.attempts = @ + 1]
            /\ resp' = NoResp
            /\ UNCHANGED returned

\* attempts += 1, and either the error value or one more turn of the loop
Retry(error) ==
    /\ IF call.attempts + 1 > _RESUME_RETRIES \/ (error = "network" /\ ~allow_resume)
       THEN Return(error)
       ELSE /\ call' = [call EXCEPT !.pc = "get", !.attempts = @ + 1]
            /\ resp' = NoResp
            /\ UNCHANGED returned

\* aiohttp.ClientError or asyncio.TimeoutError, raised by the GET or while
\* the body is read: what was written stays in the .part file.
_download_direct_stream_network_error ==
    /\ call.pc \in {"get", "stream"}
    /\ Retry("network")
    /\ req_headers' = NoHeaders
    /\ UNCHANGED <<resource, origin, allow_resume, max_size_bytes, part, meta, final,
                   start_part, written>>
    /\ UNCHANGED <<acquire, other, ytdlp, queue>>

\* The body ends: the completeness test and, when it passes, the move of the
\* .part file to the final path and the removal of the .meta.json file.
_download_direct_stream_end ==
    /\ call.pc = "stream"
    /\ resp.left = <<>>
    /\ IF call.expected_size = <<>> \/ call.downloaded >= call.expected_size[1]
       THEN /\ final' = part
            /\ part' = NoFile
            /\ meta' = NoFile
            /\ Return("success")
       ELSE /\ Retry("incomplete")
            /\ UNCHANGED <<part, meta, final>>
    /\ req_headers' = NoHeaders
    /\ UNCHANGED <<resource, origin, allow_resume, max_size_bytes, start_part, written>>
    /\ UNCHANGED <<acquire, other, ytdlp, queue>>

\* The call is cancelled, or the process ends, while the call waits for the
\* network: no handler of the function runs, the files stay as they are.
_download_direct_stream_interrupted ==
    /\ call.pc \in {"get", "stream"}
    /\ call' = NoCall
    /\ resp' = NoResp
    /\ returned' = "none"
    /\ req_headers' = NoHeaders
    /\ UNCHANGED <<resource, origin, allow_resume, max_size_bytes, part, meta, final,
                   start_part, written>>
    /\ UNCHANGED <<acquire, other, ytdlp, queue>>

\* The owner of the url replaces the resource, once: a new ETag, any size.
resource_changes(size) ==
    /\ resource.etag = 1
    /\ resource' = [etag |-> resource.etag + 1, size |-> size]
    /\ UNCHANGED <<origin, allow_resume, max_size_bytes, part, meta, final, call,
                   req_headers, resp, returned, start_part, written>>
    /\ UNCHANGED <<acquire, other, ytdlp, queue>>

\* Any server, any budget, resuming configured or not; nothing on the disk.
InitDownload ==
    /\ Constructed(NoOld)
    /\ max_concurrent_tasks = MaxConcurrency
    /\ resource \in [etag : {1}, size : 1..MaxBytes]
    /\ origin \in [ranges : BOOLEAN, declares : {"exact", "absent", "under"}]
    /\ allow_resume \in BOOLEAN
    /\ max_size_bytes \in 1..MaxBytes
    /\ part = NoFile
    /\ meta = NoFile
    /\ final = NoFile
    /\ call = NoCall
    /\ req_headers = NoHeaders
    /\ resp = NoResp
    /\ returned = "none"
    /\ start_part = NoFile
    /\ written = 0
    /\ acquire = NoAcquire
    /\ other = NoOther
    /\ ytdlp = NoYtdlp

\* Calls of _download_direct_stream for one url and one directory, one after
\* the other, against a network that may fail and a resource that may change.
NextDownload ==
    \/ \E head_ok \in BOOLEAN : _download_direct_stream(head_ok)
    \/ \E get_ok \in BOOLEAN : _download_direct_stream_get(get_ok)
    \/ \E n \in 1..chunk_size : _download_direct_stream_chunk(n)
    \/ _download_direct_stream_network_error
    \/ _download_direct_stream_end
    \/ _download_direct_stream_interrupted
    \/ \E size \in 1..MaxBytes : resource_changes(size)

SpecDownload == InitDownload /\ [][NextDownload]_vars

\* ---------------------------------------------------- download_from_url
\* A url is told by what download_from_url looks at: its scheme, whether
\* its path ends in one of DIRECT_FILE_EXT, whether it names one of
\* YTDLP_DOMAINS.
Urls == [scheme : {"http", "https", "ftp"}, media_ext : BOOLEAN, ytdlp_domain : BOOLEAN]

\* url.startswith("http://") or url.startswith("https://")
IsHttp(url) == url.scheme \in {"http", "https"}

_is_probably_direct(url) == url.media_ext

\* neither a media file by its extension nor a url of an extractor domain
Ambiguous(url) == IsHttp(url) /\ ~_is_probably_direct(url) /\ ~url.ytdlp_domain

Success(by) == [success |-> TRUE, by |-> by, error |-> ""]
Failure(by, error) == [success |-> FALSE, by |-> by, error |-> error]

\* what _download_direct_stream and _download_with_ytdlp return
DirectValues ==
    {Success("direct")} \cup
    {Failure("direct", e) : e \in {"over_budget", "http", "network", "incomplete", "not_saved"}}
YtdlpValues ==
    {Success("ytdlp")} \cup
    {Failure("ytdlp", e) : e \in {"not_installed", "ytdlp_error", "not_saved", "over_budget"}}

\* what they raise: exceptions derived from Exception, and CancelledError,
\* which is not
Exceptions == {"TooManyRedirects", "TimeoutError", "OSError"}
Raisable == Exceptions \cup {"CancelledError"}

\* (handlers for the two named exceptions alone, to compare with)
Caught_NamedOnly(exc) == exc \in {"TooManyRedirects", "TimeoutError"}

\* the three except clauses of download_from_url catch exc
Caught(exc) == exc \in Exceptions

\* the value the except clause for exc returns
Handled(exc) ==
    Failure("", CASE exc = "TooManyRedirects" -> "too_many_redirects"
                  [] exc = "TimeoutError" -> "timeout"
                  [] OTHER -> exc)

AcquireReturns(value) == acquire' = [acquire EXCEPT !.pc = "returned", !.value = value]

\* The call up to its first await: the test of the scheme and the choice of
\* the path to try first.
download_from_url(url) ==
    /\ acquire.pc \in {"idle", "returned", "raised"}
    /\ IF ~IsHttp(url)
       THEN acquire' = [NoAcquire EXCEPT !.pc = "returned", !.url = url,
                                         !.value = Failure("", "invalid_url")]
       ELSE LET first == IF _is_probably_direct(url) THEN "direct"
                         ELSE IF url.ytdlp_domain THEN "ytdlp"
                         ELSE "direct"
            IN  acquire' = [NoAcquire EXCEPT !.pc = first, !.url = url, !.tried = <<first>>]
    /\ UNCHANGED <<resource, origin, allow_resume, max_size_bytes, part, meta, final, call,
                   req_headers, resp, returned, start_part, written, other, ytdlp>>
    /\ UNCHANGED queue

\* _download_direct_stream returns res
download_from_url_after_direct(res) ==
    /\ acquire.pc = "direct"
    /\ IF _is_probably_direct(acquire.url) \/ res.success
       THEN AcquireReturns(res)
       ELSE acquire' = [acquire EXCEPT !.pc = "ytdlp", !.res = res,
                                       !.tried = Append(@, "ytdlp")]
    /\ UNCHANGED <<resource, origin, allow_resume, max_size_bytes, part, meta, final, call,
                   req_headers, resp, returned, start_part, written, other, ytdlp>>
    /\ UNCHANGED queue

\* _download_with_ytdlp returns value
download_from_url_after_ytdlp(value) ==
    /\ acquire.pc = "ytdlp"
    /\ AcquireReturns(value)
    /\ UNCHANGED <<resource, origin, allow_resume, max_size_bytes, part, meta, final, call,
                   req_headers, resp, returned, start_part, written, other, ytdlp>>
    /\ UNCHANGED queue

\* the function awaited raises exc, or the call is cancelled while it waits
download_from_url_raised(exc) ==
    /\ acquire.pc \in {"direct", "ytdlp"}
    /\ IF Caught(exc)
       THEN AcquireReturns(Handled(exc))
       ELSE acquire' = [acquire EXCEPT !.pc = "raised", !.raised = exc]
    /\ UNCHANGED <<resource, origin, allow_resume, max_size_bytes, part, meta, final, call,
                   req_headers, resp, returned, start_part, written, other, ytdlp>>
    /\ UNCHANGED queue

\* Calls of download_from_url, one after the other, for any url and any
\* outcome of the two functions it awaits.
InitAcquire ==
    /\ Constructed(NoOld)
    /\ max_concurrent_tasks = MaxConcurrency
    /\ NoTransfer

NextAcquire ==
    \/ \E url \in Urls : download_from_url(url)
    \/ \E res \in DirectValues : download_from_url_after_direct(res)
    \/ \E value \in YtdlpValues : download_from_url_after_ytdlp(value)
    \/ \E exc \in Raisable : download_from_url_raised(exc)

SpecAcquire == InitAcquire /\ [][NextAcquire]_vars

\* ------------------------------------------- two urls, one directory
\* hashlib.md5(url).hexdigest()[:16]: the digest is kept as the url it was
\* taken of, two urls of this model having two digests.
_resume_key(url) == <<url.host, url.tail>>

\* the names, in dest_dir, of the .part file, the .meta.json file and the
\* .bin file of a url
_paths_for_url(url) ==
    [part        |-> <<"dl_", _resume_key(url), ".part">>,
     meta        |-> <<"dl_", _resume_key(url), ".meta.json">>,
     final_guess |-> <<"dl_", _resume_key(url), ".bin">>]

\* The name of the final file, in dest_dir: with no Content-Disposition in
\* the answer it is what follows the last "/" of the url, which is not empty
\* here.
_decide_final_name(url) == <<url.tail>>

\* what the other url serves
OtherBody == Body([etag |-> 3, size |-> 2])

\* the two calls save under one path
SameFinal == _decide_final_name(other.url) = _decide_final_name(Locator)

\* the file at the final path of the other call
OtherFinal == IF SameFinal THEN final ELSE other.final

\* The other call begins: its .part file is not the one of Locator, the
\* keys being different.
other_download_direct_stream(url) ==
    /\ other.pc = "idle"
    /\ _paths_for_url(url).part # _paths_for_url(Locator).part
    /\ other' = [other EXCEPT !.url = url, !.pc = "streaming", !.part = FileOf(<<>>)]
    /\ UNCHANGED <<resource, origin, allow_resume, max_size_bytes, part, meta, final, call,
                   req_headers, resp, returned, start_part, written>>
    /\ UNCHANGED <<acquire, ytdlp, queue>>

\* the other call reads its body to the end
other_download_direct_stream_body ==
    /\ other.pc = "streaming"
    /\ other' = [other EXCEPT !.pc = "complete", !.part = FileOf(OtherBody)]
    /\ UNCHANGED <<resource, origin, allow_resume, max_size_bytes, part, meta, final, call,
                   req_headers, resp, returned, start_part, written>>
    /\ UNCHANGED <<acquire, ytdlp, queue>>

\* The other call moves its .part file to its final path, removing what is
\* there, and returns.
other_download_direct_stream_end ==
    /\ other.pc = "complete"
    /\ IF SameFinal
       THEN /\ final' = other.part
            /\ other' = [other EXCEPT !.pc = "returned", !.part = NoFile]
       ELSE /\ final' = final
            /\ other' = [other EXCEPT !.pc = "returned", !.part = NoFile,
                                      !.final = other.part]
    /\ UNCHANGED <<resource, origin, allow_resume, max_size_bytes, part, meta, call,
                   req_headers, resp, returned, start_part, written>>
    /\ UNCHANGED <<acquire, ytdlp, queue>>

\* Calls for Locator, one after the other, and one call for another url,
\* into the same directory, in any interleaving; the resources stay as they
\* are.
NextShared ==
    \/ \E head_ok \in BOOLEAN : _download_direct_stream(head_ok)
    \/ \E get_ok \in BOOLEAN : _download_direct_stream_get(get_ok)
    \/ \E n \in 1..chunk_size : _download_direct_stream_chunk(n)
    \/ _download_direct_stream_network_error
    \/ _download_direct_stream_end
    \/ _download_direct_stream_interrupted
    \/ \E url \in OtherLocators : other_download_direct_stream(url)
    \/ other_download_direct_stream_body
    \/ other_download_direct_stream_end

SpecShared == InitDownload /\ [][NextShared]_vars

\* ------------------------------------------------ _download_with_ytdlp
\* what yt-dlp does with a url: it raises, it returns with no file to be
\* found under the name it gives, or it has saved a file
Outcomes == {"raises", "nothing", "saved"}

\* (a size that is never compared with the budget, to compare with)
SizeOverBudget_Never(size) == FALSE

\* size_mb > max_size_mb, size_mb being os.path.getsize(out_path) / (1024 * 1024)
SizeOverBudget(size) == size > max_size_bytes

\* What _download_with_ytdlp returns and what it leaves in dest_dir, when
\* yt-dlp does outcome and the file it saves, under a name no call had
\* before, has size bytes.
YtdlpResult(outcome, size) ==
    IF ~ytdlp.installed
    THEN [value |-> Failure("ytdlp", "not_installed"),
          disk  |-> [ytdlp EXCEPT !.path = <<>>]]
    ELSE LET made == [ytdlp EXCEPT !.dest_dir = TRUE, !.path = <<>>]
         IN  CASE outcome = "raises" ->
                    [value |-> Failure("ytdlp", "ytdlp_error"), disk |-> made]
               [] outcome = "nothing" ->
                    [value |-> Failure("ytdlp", "not_saved"), disk |-> made]
               [] outcome = "saved" ->
                    IF SizeOverBudget(size)
                    THEN [value |-> Failure("ytdlp", "over_budget"), disk |-> made]
                    ELSE [value |-> Success("ytdlp"),
                          disk  |-> [made EXCEPT !.files = Append(@, size),
                                                 !.path = <<Len(ytdlp.files) + 1>>]]

\* download_from_url awaits _download_with_ytdlp, which runs to its return
\* in one step: it awaits nothing.
_download_with_ytdlp(outcome, size) ==
    /\ acquire.pc = "ytdlp"
    /\ Len(ytdlp.files) < MaxFiles
    /\ AcquireReturns(YtdlpResult(outcome, size).value)
    /\ ytdlp' = YtdlpResult(outcome, size).disk
    /\ UNCHANGED <<resource, origin, allow_resume, max_size_bytes, part, meta, final, call,
                   req_headers, resp, returned, start_part, written, other>>
    /\ UNCHANGED queue

\* Calls of download_from_url, one after the other, with any budget, yt_dlp
\* imported or not, and any outcome of yt-dlp.
InitYtdlp ==
    /\ Constructed(NoOld)
    /\ max_concurrent_tasks = MaxConcurrency
    /\ resource = [etag |-> 1, size |-> 1]
    /\ origin = [ranges |-> TRUE, declares |-> "exact"]
    /\ allow_resume = TRUE
    /\ max_size_bytes \in 1..MaxBytes
    /\ part = NoFile
    /\ meta = NoFile
    /\ final = NoFile
    /\ call = NoCall
    /\ req_headers = NoHeaders
    /\ resp = NoResp
    /\ returned = "none"
    /\ start_part = NoFile
    /\ written = 0
    /\ acquire = NoAcquire
    /\ other = NoOther
    /\ ytdlp \in [installed : BOOLEAN, dest_dir : {FALSE}, files : {<<>>}, path : {<<>>}]

NextYtdlp ==
    \/ \E url \in Urls : download_from_url(url)
    \/ \E res \in DirectValues : download_from_url_after_direct(res)
    \/ \E outcome \in Outcomes, size \in 1..MaxBytes : _download_with_ytdlp(outcome, size)
    \/ \E exc \in Raisable : download_from_url_raised(exc)

SpecYtdlp == InitYtdlp /\ [][NextYtdlp]_vars

\* ------------------------------------------------------------ claims
\* The worker starts job id in this step.
Started(id) == id \notin active_tasks /\ id \in active_tasks'

\* the item of a queued job
HeapItem(id) == _heap[HeapIndex(_heap, id) + 1]

\* the order of the _PQItem dataclass, written out
PrioStampSeqBefore(a, b) ==
    \/ a.prio < b.prio
    \/ a.prio = b.prio /\ a.created_ts < b.created_ts
    \/ a.prio = b.prio /\ a.created_ts = b.created_ts /\ a.seq < b.seq

Processing == {id \in Ids : Status(id) = "processing"}

\* C3: at no time are more than max_concurrent_tasks jobs processing.
C3_ConcurrencyBound == Cardinality(Processing) <= max_concurrent_tasks

\* every slot is taken and a job waits in the queue
C3_Witness ==
    /\ Cardinality(Processing) = max_concurrent_tasks
    /\ max_concurrent_tasks > 1
    /\ _heap # <<>>

Terminal == {"completed", "failed", "canceled"}

\* C4: a record's status only moves queued -> processing -> terminal or
\* queued -> canceled; a terminal status never changes; a record that is gone
\* (purged, or not yet created) appears as queued for a new job or as canceled
\* for a queued job, never as processing.
C4_StatusMovesForward ==
    [][\A id \in Ids :
          LET old == Status(id)
              new == Status(id)'
          IN  \/ new = old
              \/ new = "not_found"
              \/ old = "queued" /\ new \in {"processing", "canceled"}
              \/ old = "processing" /\ new \in Terminal
              \/ old = "not_found" /\ new = "queued" /\ id = _seq + 1
              \/ old = "not_found" /\ new = "canceled" /\ id \in HeapIds]_vars

\* one job was canceled while queued, another ran to the end, and the worker
\* has gone round its loop since
C4_Witness ==
    \E a, b \in Ids :
        /\ Status(a) = "canceled" /\ task[a].st = "none"
        /\ Status(b) = "completed"
        /\ a < b

\* C5: cancel(id) on a queued job takes it out of the heap, sets its status to
\* canceled in the same step and returns True; a job taken out of the queue
\* without a task never gets one and its body is never called.
RemovedFromQueue(id) == id <= _seq /\ id \notin HeapIds /\ task[id].st = "none"

C5_CancelQueued ==
    [][\A id \in Ids :
          /\ (cancel(id, Times) /\ id \in HeapIds) =>
                /\ CancelValue(id)
                /\ id \notin HeapIds'
                /\ Status(id)' = "canceled"
                /\ RemovedFromQueue(id)'
          /\ RemovedFromQueue(id) =>
                /\ RemovedFromQueue(id)'
                /\ invoked'[id] = 0]_vars

\* a job canceled while queued, after which the worker started a job that was
\* submitted later and that job's body ran
C5_Witness ==
    \E a, b \in Ids :
        /\ Status(a) = "canceled" /\ RemovedFromQueue(a) /\ invoked[a] = 0
        /\ a < b /\ invoked[b] = 1

\* C6 as stated, in the form a finite run refutes: when the execution unit of
\* a processing job whose cancellation was requested ends, the job is canceled
\* (its record may have been purged) and its slot is released.
C6_CancelProcessing ==
    [][\A id \in Ids :
          (task[id].must_cancel /\ task[id].st # "done" /\ task'[id].st = "done") =>
              /\ Status(id)' \in {"canceled", "not_found"}
              /\ id \notin active_tasks']_vars

\* C7 as stated: a job whose execution unit ended without the work ever
\* running is canceled.
C7_CancelBeforeFirstStep ==
    \A id \in Ids :
        (task[id].st = "done" /\ invoked[id] = 0) => Status(id) \in {"canceled", "not_found"}

\* C8: for a job that is completed, failed or canceled, and for an id that was
\* never handed out, cancel returns False, and a cancel step leaves every
\* variable as it was.
C8_CancelTerminalNoOp ==
    /\ [](\A id \in Ids \cup {UnknownId} :
            (Status(id) \in Terminal \/ id > _seq) => ~CancelValue(id))
    /\ [][\A id \in Ids \cup {UnknownId} :
            (cancel(id, Times) /\ (Status(id) \in Terminal \/ id > _seq))
                => UNCHANGED vars]_vars

\* a completed, a failed and a canceled job side by side, each of which
\* cancel can be called on
C8_Witness ==
    /\ \E a, b \in Ids : Status(a) = "completed" /\ Status(b) = "failed"
    /\ \E c \in Ids : Status(c) = "canceled"

\* C9 as stated, in the form a finite run refutes: when cancel(id) returns
\* True, job id is canceled or its execution unit is still there to be
\* cancelled (a unit that is done can no longer change the job's status).
C9_TrueMeansCanceled ==
    [][\A id \in Ids :
          (cancel(id, Times) /\ CancelValue(id)) =>
              \/ Status(id)' \in {"canceled", "not_found"}
              \/ TaskNotDone(id)']_vars

\* every slot is held by an execution unit that has ended: no job can start
Wedged == SlotsFull /\ \A id \in active_tasks : task[id].st = "done"

\* C10 as stated, in the form a finite run refutes: a job whose body raised is
\* failed with the message as its error and holds no slot, the worker loop is
\* alive, and a job still queued can still be started.
C10_RaiseIsolated ==
    \A id \in Ids :
        Status(id) = "failed" =>
            /\ task_results[id].error \in Messages
            /\ task_results[id].result = None
            /\ id \notin active_tasks
            /\ \A w \in WorkerIds : worker[w].st # "done"
            /\ _heap # <<>> => ~Wedged

\* C11: when the timeout of a job submitted with a positive timeout runs out
\* while its body is suspended, the job's record (unless it was purged) becomes
\* failed, with the timeout marker as its error and no result, and the job
\* leaves active_tasks; no other status is used for a timeout.
C11_TimeoutFails ==
    [][\A id \in Ids :
          (task[id].item # NoItem /\ task[id].item.timeout = <<1>>
                /\ _execute_task_timeout(id)) =>
              /\ id \notin active_tasks'
              /\ task_results[id] # NoRec =>
                    /\ Status(id)' = "failed"
                    /\ task_results'[id].error = "timeout(1s)"
                    /\ task_results'[id].result = None]_vars

\* a job submitted with a timeout has run, is failed with the timeout marker
\* and holds no slot, while a later job runs in its place
C11_Witness ==
    \E a, b \in Ids :
        /\ Status(a) = "failed" /\ task_results[a].error = "timeout(1s)"
        /\ invoked[a] = 1 /\ a \notin active_tasks
        /\ a < b /\ b \in active_tasks /\ Cardinality(active_tasks) = max_concurrent_tasks

\* a record holds no payload under this key: the key is missing or holds None
NoPayload(v) == v \in {Absent, None}

SeqsInUse ==
    {_heap[i].seq : i \in 1..Len(_heap)}
        \cup {task[id].item.seq : id \in {j \in Ids : task[j].item # NoItem}}

\* C13 as stated: a call of add_task returns a new id, gives the job a
\* sequence number greater than every earlier one, and on return the job's
\* status is queued and its position is not None.
C13_SubmitSucceeds ==
    [][\A id \in Ids :
          (id = _seq + 1 /\ _seq' = _seq + 1) =>
              /\ task_results[id] = NoRec /\ id \notin HeapIds
              /\ id \in HeapIds'
              /\ \A n \in SeqsInUse : n < HeapItem(id)'.seq
              /\ Status(id)' = "queued"
              /\ get_task_position(id)' # <<>>]_vars

\* C14 as stated: get_task_status returns not_found for an id never handed
\* out, and for an id whose record was purged it returns not_found from then
\* on, whatever is called later.
C14_PurgedStaysNotFound ==
    [][\A id \in Ids \cup {UnknownId} :
          /\ (id > _seq + 1 \/ id = UnknownId) => Status(id)' = "not_found"
          /\ (id <= _seq /\ task_results[id] = NoRec) => Status(id)' = "not_found"]_vars

\* the queued jobs that come before job id in the order the worker serves
QueuedBefore(id) ==
    {i \in 1..Len(_heap) : PrioStampSeqBefore(_heap[i], HeapItem(id))}

\* C15: the position of a queued job is the number of queued jobs before it
\* in the order of service, and the job the worker starts is the one at
\* position 0; a job that is processing or terminal, and an id never handed
\* out, has position None.
C15_PositionIsRank ==
    /\ [](\A id \in Ids \cup {UnknownId} :
            /\ id \in HeapIds => get_task_position(id) = <<Cardinality(QueuedBefore(id))>>
            /\ Status(id) = "queued" => id \in HeapIds
            /\ (Status(id) \in {"processing"} \cup Terminal \/ id > _seq) =>
                  get_task_position(id) = <<>>)
    /\ [][\A id \in Ids : Started(id) => get_task_position(id) = <<0>>]_vars

\* three jobs, the last submitted at position 0 ahead of an earlier one, a
\* third processing with no position
C15_Witness ==
    \E a, b, c \in Ids :
        /\ a < b
        /\ get_task_position(b) = <<0>> /\ get_task_position(a) = <<1>>
        /\ Status(c) = "processing" /\ get_task_position(c) = <<>>

\* a call of stop(graceful=True) returns in this step, with no start() since
GracefulStopReturns ==
    /\ ~_is_running'
    /\ \/ stopper.pc = "gather" /\ stopper'.pc = "idle"
       \/ stopper.pc \in {"await_worker", "sleep0"} /\ stopper.graceful /\ stopper'.pc = "idle"

\* the jobs whose tasks this call of stop() cancelled
StopCancelled == IF stopper.pc \in {"sleep0", "gather"} THEN stopper.cancelled ELSE {}

\* C16 as stated, in the form a finite run refutes: while the queue is stopped
\* no job is started; when stop(graceful=True) returns no job is left
\* processing, and the jobs it cancelled (cancel_active=True) are canceled.
C16_StopQuiesces ==
    [][/\ ~_is_running => \A id \in Ids : ~Started(id)
       /\ GracefulStopReturns =>
             /\ \A id \in Ids : Status(id)' # "processing"
             /\ \A id \in StopCancelled : Status(id)' \in {"canceled", "not_found"}]_vars

\* the ids that have a record
Recorded == {id \in Ids : task_results[id] # NoRec}

\* C17: purge_old_results(max_items) on n records leaves min(n, max_items) of
\* them, and no record it keeps was created before a record it drops.
C17_PurgeKeepsNewest ==
    [][\A m \in 0..MaxPurge :
          purge_old_results(m) =>
              /\ Recorded' \subseteq Recorded
              /\ Cardinality(Recorded') =
                    IF Cardinality(Recorded) < m THEN Cardinality(Recorded) ELSE m
              /\ \A kept \in Recorded', dropped \in Recorded \ Recorded' :
                    task_results[kept].created_at >= task_results[dropped].created_at]_vars

\* the clock stepped back between two submissions and a purge dropped the
\* record of the job submitted later, the one created earlier, keeping the
\* other
C17_Witness ==
    \E a, b \in Ids :
        /\ b < a /\ a \in HeapIds /\ a \notin Recorded /\ b \in Recorded
        /\ HeapItem(a).created_ts < task_results[b].created_at

\* a step that removes a record
RecordRemoved ==
    \/ ~(Recorded \subseteq Recorded')
    \/ old_results'.n < old_results.n

\* C18 (as stated): a record is removed only by a call of purge_old_results
\* made by the caller; submit, cancel, the worker and the end of a job remove
\* none, however many records there are.
C18_OnlyCallerPurges ==
    [][RecordRemoved => \E m \in 0..MaxPurge : purge_old_results(m)]_vars

\* C18 (amended): a record is removed only by purge_old_results, which the
\* caller may call and which add_task calls with max_items = PURGE_DEFAULT
\* once it has written the new record: a step that removes a record is a
\* caller's purge or a submission made with PURGE_DEFAULT records or more,
\* and that submission leaves PURGE_DEFAULT records.
C18_RemovedOnlyByPurge ==
    [][RecordRemoved =>
          \/ \E m \in 0..MaxPurge : purge_old_results(m)
          \/ /\ _seq' = _seq + 1
             /\ TotalRecords(res_order, old_results) >= PURGE_DEFAULT
             /\ TotalRecords(res_order', old_results') = PURGE_DEFAULT]_vars

\* submissions have pushed two records or more out of a full history
C18_Witness ==
    /\ old_results.n < PURGE_DEFAULT - 1
    /\ Recorded # {}
    /\ TotalRecords(res_order, old_results) = PURGE_DEFAULT

\* The call in flight found a .part file holding the first N bytes, 0 < N < M,
\* of the resource as it still is, the server honours Range, and the HEAD
\* probe of this call was answered with the right size M.
ResumeCase ==
    /\ allow_resume /\ origin.ranges /\ origin.declares = "exact"
    /\ call.accept_ranges /\ call.etag = <<resource.etag>>
    /\ Exists(start_part)
    /\ 0 < Size(start_part) /\ Size(start_part) < resource.size
    /\ start_part[1] = SubSeq(Body(resource), 1, Size(start_part))

\* C19: a call that finds the first N of the M bytes of a resource that
\* honours Range and has not changed, and that succeeds, has written the
\* M - N bytes that were missing and no more, and the final file is the M
\* bytes of the resource.
C19_ResumeTransfersRest ==
    [][(_download_direct_stream_end /\ returned' = "success" /\ ResumeCase) =>
          /\ written = resource.size - Size(start_part)
          /\ final' = FileOf(Body(resource))]_vars

\* a call that found a part of the resource has returned success
C19_Witness ==
    /\ returned = "success" /\ allow_resume /\ origin.ranges /\ origin.declares = "exact"
    /\ Exists(start_part) /\ Exists(final)
    /\ 0 < Size(start_part) /\ Size(start_part) < Size(final)
    /\ start_part[1] = SubSeq(final[1], 1, Size(start_part))
    /\ final = FileOf(Body(resource))
    /\ written = Size(final) - Size(start_part)

\* C20: after every chunk written the running total is compared with the
\* budget, and a total above it ends the call: the .part file is removed and
\* the over-budget error returned, whatever size HEAD declared.  So no file
\* grows beyond the budget plus one chunk, and a call that reads a body larger
\* than the budget never returns success.
C20_BudgetEnforced ==
    /\ [](/\ Size(part) <= max_size_bytes + chunk_size
          /\ Size(final) <= max_size_bytes + chunk_size)
    /\ [][\A n \in 1..chunk_size :
             _download_direct_stream_chunk(n) =>
                 /\ Size(part) + n <= max_size_bytes + chunk_size
                 /\ call.total_written + n > max_size_bytes =>
                        /\ part' = NoFile
                        /\ returned' = "over_budget"
                        /\ call'.pc = "returned"]_vars
    /\ [][(_download_direct_stream_end /\ returned' = "success") =>
             resp.size <= max_size_bytes]_vars

\* a body larger than the budget, its size not declared or declared too
\* small, was cut off while it was written
C20_Witness ==
    /\ returned = "over_budget" /\ written > 0 /\ ~Exists(part)
    /\ origin.declares \in {"absent", "under"}
    /\ resource.size > max_size_bytes

\* the size the HEAD answer carries is above the budget
DeclaredOverBudget ==
    \/ origin.declares = "exact" /\ resource.size > max_size_bytes
    \/ origin.declares = "under" /\ resource.size - 1 > max_size_bytes

\* C21: when HEAD declares a size above the budget the call returns the
\* over-budget error at once: no GET is made and no file is touched.
C21_DeclaredOverBudgetFailsFast ==
    [][(_download_direct_stream(TRUE) /\ DeclaredOverBudget) =>
          /\ returned' = "over_budget"
          /\ call'.pc = "returned"
          /\ resp' = NoResp
          /\ written' = 0
          /\ UNCHANGED <<part, final>>]_vars

\* a call has ended on the size HEAD declared, having written nothing
C21_Witness ==
    /\ returned = "over_budget" /\ call.pc = "returned"
    /\ written = 0 /\ start_part = part
    /\ DeclaredOverBudget

\* the bytes of a file belong to one version of the resource
OneVersion(file) ==
    Exists(file) => \A i, j \in 1..Size(file) : file[1][i] \div 10 = file[1][j] \div 10

\* what a download that resumes nothing leaves: the body of a version
FreshDownload(file) ==
    \E e \in 1..2 : file = FileOf(Body([etag |-> e, size |-> Size(file)]))

\* C22: bytes of two versions of the resource are never put together: the
\* final file is what a download from byte zero gives.
C22_NoMixedVersions ==
    Exists(final) => OneVersion(final) /\ FreshDownload(final)

\* C28: a GET that asks for a range carries, as If-Range, the ETag the
\* .meta.json file recorded when the bytes of the .part file were fetched.
C28_IfRangeFromDescriptor ==
    [][((\E get_ok \in BOOLEAN : _download_direct_stream_get(get_ok))
            /\ req_headers'.Range # <<>>) =>
          /\ Exists(meta)
          /\ req_headers'.If_Range = <<meta[1].etag>>]_vars

C26_StagingRemoved ==
    call.pc = "returned" =>
        /\ returned \in {"success", "over_budget"} => ~Exists(part) /\ ~Exists(meta)
        /\ Exists(part) <=> Exists(meta)

\* C30: between two operations the .part file and the .meta.json file are
\* there together or not at all.
C30_StagingPairTogether ==
    call.pc \in {"idle", "returned"} => (Exists(part) <=> Exists(meta))

\* C29: a call that finds a .part file and whose probe reports no support
\* for ranges (or fails) removes the file before it fetches, and none of its
\* requests, the first or a retry, asks for a range: each opens the file
\* anew and is answered from byte zero.
C29_NoResumeWithoutRanges ==
    /\ [][\A head_ok \in BOOLEAN :
             (/\ _download_direct_stream(head_ok)
              /\ Size(part) > 0
              /\ ~(head_ok /\ origin.ranges)
              /\ call'.pc = "get") =>
                 part' = NoFile /\ call'.downloaded = 0]_vars
    /\ [][\A get_ok \in BOOLEAN :
             (_download_direct_stream_get(get_ok) /\ ~call.accept_ranges) =>
                 /\ req_headers'.Range = <<>>
                 /\ call'.pc = "stream" =>
                        part' = FileOf(<<>>) /\ resp'.left = Body(resource)]_vars

\* a call that found a .part file and learnt of no support for ranges is
\* being answered again, from byte zero, after a failure that left bytes
C29_Witness ==
    /\ call.pc = "stream" /\ ~call.accept_ranges /\ call.attempts > 0
    /\ Size(start_part) > 0
    /\ call.downloaded > 0 /\ Size(part) = 0
    /\ req_headers.Range = <<>>

\* C24: no exception derived from Exception leaves download_from_url: what
\* the awaited function raises is returned as a value with success false and
\* an error text, as is every failure value; and a url that is not http(s)
\* is refused with nothing tried.
C24_FailuresAreValues ==
    /\ [](/\ acquire.raised \notin Exceptions
          /\ acquire.pc = "returned" => acquire.value.success \/ acquire.value.error # ""
          /\ (acquire.pc # "idle" /\ ~IsHttp(acquire.url)) =>
                 /\ acquire.pc = "returned"
                 /\ acquire.value = Failure("", "invalid_url")
                 /\ acquire.tried = <<>>)
    /\ [][\A exc \in Exceptions :
             download_from_url_raised(exc) =>
                 /\ acquire'.pc = "returned"
                 /\ ~acquire'.value.success
                 /\ acquire'.value.error # ""]_vars

\* an error of the file system raised by the extractor path came back as a value
C24_Witness ==
    /\ acquire.pc = "returned"
    /\ acquire.tried = <<"direct", "ytdlp">>
    /\ acquire.value = Failure("", "OSError")

\* C25: for a url that is neither a media file by its extension nor of an
\* extractor domain the direct stream is tried first, and the extractor is
\* tried exactly when the direct stream failed, by a failure value or by an
\* exception; a success of the direct stream is returned as it is.
C25_ExtractorIffDirectFailed ==
    /\ []((Ambiguous(acquire.url) /\ acquire.tried # <<>>) => acquire.tried[1] = "direct")
    /\ [][(Ambiguous(acquire.url) /\ acquire.pc = "direct") =>
             /\ \A res \in DirectValues :
                    download_from_url_after_direct(res) =>
                        IF res.success
                        THEN acquire'.pc = "returned" /\ acquire'.value = res
                                /\ acquire'.tried = <<"direct">>
                        ELSE acquire'.pc = "ytdlp"
             /\ \A exc \in Exceptions :
                    download_from_url_raised(exc) => acquire'.pc = "ytdlp"]_vars

\* C27: a call for another url into the same directory shares no file with
\* the calls for Locator: the .part files, the .meta.json files and the final
\* files are different files, and the file a call returned holds the bytes
\* of the resource of that call.
C27_NothingShared ==
    other.pc # "idle" =>
        /\ _paths_for_url(other.url).part # _paths_for_url(Locator).part
        /\ _paths_for_url(other.url).meta # _paths_for_url(Locator).meta
        /\ _decide_final_name(other.url) # _decide_final_name(Locator)
        /\ (call.pc = "returned" /\ returned = "success") => final = FileOf(Body(resource))
        /\ other.pc = "returned" => OtherFinal = FileOf(OtherBody)

\* the GET of this step asked for a range and was answered with the whole body
Restarted ==
    /\ \E get_ok \in BOOLEAN : _download_direct_stream_get(get_ok)
    /\ req_headers'.Range # <<>>
    /\ call'.pc = "stream"
    /\ Len(resp'.left) = resource.size

\* C31: a call makes at most 1 + _RESUME_RETRIES GETs: the first with no
\* attempt counted, each later one after one more attempt was counted, be it
\* for a network error or for a body that ended short, and none once the
\* attempts exceed _RESUME_RETRIES; the network and the incomplete error are
\* returned only when the attempts are used up (the network error also when
\* resuming is not configured); a whole body sent for a range is read in the
\* same turn of the loop, from byte zero, with no attempt counted.
C31_BoundedRequests ==
    /\ [][(\E get_ok \in BOOLEAN : _download_direct_stream_get(get_ok)) =>
             call.attempts <= _RESUME_RETRIES]_vars
    /\ [][(call.pc = "idle" \/ call.pc = "returned") /\ call'.pc = "get" =>
             call'.attempts = 0]_vars
    /\ [][(call.pc = "get" \/ call.pc = "stream") /\ call'.pc = "get" /\ call' # call =>
             call'.attempts = call.attempts + 1]_vars
    /\ [][(call.pc = "get" \/ call.pc = "stream") /\ call'.pc = "stream" =>
             call'.attempts = call.attempts]_vars
    /\ [][(call.pc = "get" \/ call.pc = "stream")
             /\ (returned' = "network" \/ returned' = "incomplete") =>
             \/ call.attempts = _RESUME_RETRIES
             \/ returned' = "network" /\ ~allow_resume]_vars
    /\ [][Restarted =>
             /\ call'.attempts = call.attempts
             /\ call'.downloaded = 0
             /\ part' = FileOf(<<>>)
             /\ resp'.left = Body(resource)]_vars

\* the last GET a call may make asked for a range and got the whole of the
\* new body, which is being read
C31_Witness ==
    /\ call.pc = "stream"
    /\ call.attempts = _RESUME_RETRIES
    /\ req_headers.Range # <<>>
    /\ resp.left = Body(resource)
    /\ resource.etag = 2

\* the byte at place i of the file is a byte of offset i
InPlace(file) ==
    Exists(file) => \A i \in 1..Size(file) : file[1][i] % 10 = i

\* C32: with resuming configured and a server that honours ranges, the
\* offset the call keeps is the length of the .part file at every request
\* and while the body is read; a range that is asked for starts at that
\* length, in the first request and in every retry; so each byte of the
\* .part file, and of the final file, sits at its own offset, none left out
\* and none twice.
C32_RangeFromLastByte ==
    /\ []((call.pc \in {"get", "stream"} /\ allow_resume /\ call.accept_ranges) =>
             /\ call.downloaded = Size(part)
             /\ InPlace(part))
    /\ [][((\E get_ok \in BOOLEAN : _download_direct_stream_get(get_ok))
             /\ req_headers'.Range # <<>>) =>
             /\ call.accept_ranges
             /\ req_headers'.Range = <<Size(part)>>
             /\ req_headers'.Range = <<call.downloaded>>]_vars
    /\ [][(_download_direct_stream_end /\ allow_resume /\ call.accept_ranges
             /\ returned' = "success") =>
             /\ InPlace(final')
             /\ Size(final') = resp.size]_vars

\* a retry asked for the rest, and bytes of it have been added to the file
C32_Witness ==
    /\ call.pc = "stream"
    /\ call.attempts > 0
    /\ req_headers.Range # <<>>
    /\ Size(part) > req_headers.Range[1]
    /\ req_headers.Range[1] > 0

\* C40: while a body is read the two counters of the call are the length
\* of the .part file; the over-budget error is returned for a chunk only
\* when the body being read is larger than the budget; and the call ends
\* with success only when the file it moves holds the expected size.
C40_CountersAreFileLength ==
    /\ [](call.pc = "stream" =>
             /\ call.downloaded = Size(part)
             /\ call.total_written = Size(part))
    /\ [][((\E n \in 1..chunk_size : _download_direct_stream_chunk(n))
             /\ returned' = "over_budget") =>
             resp.size > max_size_bytes]_vars
    /\ [][(_download_direct_stream_end /\ returned' = "success") =>
             call.expected_size = <<>> \/ Size(final') >= call.expected_size[1]]_vars

\* the server honours ranges, the resource is the one it always was and is
\* within the budget
Healthy ==
    /\ origin.ranges
    /\ origin.declares = "exact"
    /\ resource.etag = 1
    /\ resource.size <= max_size_bytes

\* C39: a call that finds such a server, its probe answered, goes on to
\* success whatever .part and .meta.json files it found: its GET, answered
\* by the server, is not turned into an error, no chunk of the body is over
\* the budget, and the end of the body is the end of the call, with the
\* whole resource in the final file.
C39_RetrySucceeds ==
    [][(Healthy /\ call.accept_ranges) =>
          /\ _download_direct_stream_get(TRUE) => call'.pc = "stream"
          /\ (\E n \in 1..chunk_size : _download_direct_stream_chunk(n)) =>
                 returned' # "over_budget"
          /\ _download_direct_stream_end =>
                 returned' = "success" /\ final' = FileOf(Body(resource))]_vars

\* C34: the extractor path checks the file it saved against the budget
\* download_from_url was given: no file larger than the budget is left in
\* dest_dir or returned with success; a file over the budget is removed
\* and the over-budget error returned; and when yt_dlp could not be
\* imported the error saying so is returned with the disk as it was.
C34_ExtractorBudget ==
    /\ [](/\ \A i \in 1..Len(ytdlp.files) : ytdlp.files[i] <= max_size_bytes
          /\ (acquire.pc = "returned" /\ acquire.value = Success("ytdlp")) =>
                 /\ ytdlp.path # <<>>
                 /\ ytdlp.files[ytdlp.path[1]] <= max_size_bytes)
    /\ [][\A outcome \in Outcomes, size \in 1..MaxBytes :
             _download_with_ytdlp(outcome, size) =>
                 /\ ~ytdlp.installed =>
                        /\ acquire'.value = Failure("ytdlp", "not_installed")
                        /\ ytdlp'.dest_dir = ytdlp.dest_dir
                        /\ ytdlp'.files = ytdlp.files
                 /\ (ytdlp.installed /\ outcome = "saved" /\ size > max_size_bytes) =>
                        /\ acquire'.value = Failure("ytdlp", "over_budget")
                        /\ ytdlp'.files = ytdlp.files
                 /\ (ytdlp.installed /\ outcome = "saved" /\ size <= max_size_bytes) =>
                        acquire'.value = Success("ytdlp")]_vars

\* a file over the budget was removed, one within the budget had been kept
C34_Witness ==
    /\ acquire.pc = "returned"
    /\ acquire.value = Failure("ytdlp", "over_budget")
    /\ ytdlp.files # <<>>
    /\ ytdlp.path = <<>>

\* the jobs whose record says queued
Queued == {id \in Ids : Status(id) = "queued"}

\* C36: the jobs in active_tasks are the jobs whose status is processing,
\* get_queue_stats counts them, and a job whose execution unit has ended is
\* neither in active_tasks nor processing.
C36_SlotsAreProcessing ==
    /\ active_tasks = Processing
    /\ get_queue_stats.active_tasks = Cardinality(Processing)
    /\ \A id \in Ids :
           task[id].st = "done" => id \notin active_tasks /\ Status(id) # "processing"

\* C37: no step takes away the record of a job that is queued or
\* processing; every item of the heap has a record, so the job the worker
\* pops is started or, its cancellation noted, canceled; and the queue_size
\* of get_queue_stats is the number of records that say queued.
C37_PurgeSparesLive ==
    /\ [][\A id \in Ids :
             Status(id) \in {"queued", "processing"} => Status(id)' # "not_found"]_vars
    /\ [](\A i \in 1..Len(_heap) : task_results[_heap[i].id] # NoRec)
    /\ [](get_queue_stats.queue_size = Cardinality(Queued))

\* C38: the body of a job is called at most once, and a job that has left
\* the heap never comes back to it, whatever is submitted, cancelled,
\* stopped and started again.
C38_InvokedAtMostOnce ==
    /\ [](\A id \in Ids : invoked[id] <= 1)
    /\ [](\A i, j \in 1..Len(_heap) : _heap[i].id = _heap[j].id => i = j)
    /\ [][\A id \in Ids : (id <= _seq /\ id \notin HeapIds) => id \notin HeapIds']_vars

\* one job ran under the first worker, another was started by the worker
\* of a second start()
C38_Witness ==
    /\ \E a, b \in Ids :
          /\ invoked[a] = 1 /\ task[a].st = "done"
          /\ invoked[b] = 1 /\ task[b].st = "running"
    /\ worker[1].st = "done"
    /\ worker[2].st = "sleeping"

C35_EveryJobEnds ==
    /\ \A id \in Ids :
          (Status(id) \in {"queued", "processing"}) ~> (Status(id) \in Terminal)
    /\ []<>(_heap = <<>> \/ \E id \in active_tasks : task[id].st # "done")
====
